---- MODULE Spec2Model ----
(***************************************************************************)
(* Model of the Socket.IO jam-session handlers of src/app.py               *)
(* (handle_connect, handle_disconnect, create_session,                     *)
(* join_session_handler, sync_playback_state, add_song_to_jam,             *)
(* remove_song_from_jam) over the Firestore collection 'jam_sessions',     *)
(* the process-local dictionaries jam_sessions and sids_in_jams, and the   *)
(* Socket.IO rooms.  Firestore is taken as initialised (db is not None)    *)
(* and reachable.  In Spec and PlaylistSpec every handler runs to          *)
(* completion as one step; in RaceSpec the handlers that read a document   *)
(* and write it back run as a read step and a write step that interleave.  *)
(***************************************************************************)
EXTENDS Integers, Sequences, FiniteSets, TLC

(* ---- bounds of the model ---- *)
MaxSids == 2        \* connections that ever connect
MaxJams == 2        \* documents ever created in 'jam_sessions'
MaxLen == 2         \* longest playlist add_song_to_jam may produce
MaxClock == 3       \* latest server time at which a host still syncs
MaxUuid == 1        \* uuid4 values ever issued
MaxTasks == 2       \* handler invocations that run interleaved

Sids == 1..MaxSids
Tasks == 1..MaxTasks
JamIds == 1..MaxJams
NoJam == 0          \* a request whose 'jam_id' is missing
None == "None"      \* a missing or None field of a client song
Nicknames == {"Host", "Guest"}
Times == {7}        \* client-supplied current_playback_time values

\* songs a client sends: two that carry the same client-chosen id, one that
\* carries no id, one without 'type', a youtube song without 'videoId' and an
\* audio song without 'url'
SongA == [id |-> "t1", title |-> "A", type |-> "youtube", videoId |-> "v",
          url |-> None]
SongB == [id |-> "t1", title |-> "B", type |-> "audio", videoId |-> None,
          url |-> "u"]
SongC == [id |-> None, title |-> "C", type |-> "audio", videoId |-> None,
          url |-> "u"]
SongNoType == [id |-> "t2", title |-> "D", type |-> None, videoId |-> "v",
               url |-> "u"]
SongNoVideoId == [id |-> "t2", title |-> "D", type |-> "youtube",
                  videoId |-> None, url |-> "u"]
SongNoUrl == [id |-> "t2", title |-> "D", type |-> "audio", videoId |-> "v",
              url |-> None]
\* a request without 'song': data.get('song') is None
NoSong == [id |-> None, title |-> None, type |-> None, videoId |-> None,
           url |-> None]
ClientSongs == {SongA, SongB, SongC, SongNoType, SongNoVideoId, SongNoUrl,
                NoSong}
SongIds == {"t1", "t2"}     \* 'song_id' values of remove requests

VARIABLES
    db,             \* Firestore collection 'jam_sessions': jam_id -> document
    jam_sessions,   \* process-local cache: jam_id -> record
    sids_in_jams,   \* process-local registry: sid -> [jam_id, nickname]
    rooms,          \* Socket.IO rooms: jam_id -> set of sids
    conn,           \* sid -> "new" | "connected" | "disconnected"
    clock,          \* value the next firestore.SERVER_TIMESTAMP resolves to
    next_uuid,      \* number of uuid4 values issued so far
    emitted,        \* events emitted by the last handler
    last,           \* the last handler run: name, caller, arguments, branch
    in_flight       \* task -> a handler invocation between its Firestore
                    \* read and its write, or one that has returned

vars == <<db, jam_sessions, sids_in_jams, rooms, conn, clock, next_uuid,
          emitted, last, in_flight>>

(* ---- helpers ---- *)

\* dict with key k set to v (Python: d[k] = v)
DictSet(d, k, v) ==
    [x \in (DOMAIN d) \cup {k} |-> IF x = k THEN v ELSE d[x]]

\* dict without key k (Python: {s: n for s, n in d.items() if s != k}, pop, del)
DictDel(d, k) ==
    [x \in (DOMAIN d) \ {k} |-> d[x]]

EmptyDict == [x \in {} |-> 0]

\* socketio emit: the event, the jam it is about, the sids it is sent to
Event(name, jam_id, to) ==
    [event |-> name, jam_id |-> jam_id, to |-> to]

\* session_join_success: the event with the state it carries to the caller
JoinSuccess(jam_id, sid, jam_data, participants) ==
    [event |-> "session_join_success", jam_id |-> jam_id, to |-> {sid},
     playlist |-> jam_data.playlist,
     playback_state |-> jam_data.playback_state,
     participants |-> participants]

\* update_participants: the event with the participants map it carries
ParticipantsChanged(jam_id, to, participants) ==
    [event |-> "update_participants", jam_id |-> jam_id, to |-> to,
     participants |-> participants]

\* what a handler read of a document before it ran: playlist, playback_state
Read(jam_data) ==
    [playlist |-> jam_data.playlist, playback_state |-> jam_data.playback_state]

\* the record of a handler run: the handler, request.sid, the request's
\* jam_id and song id, the branch taken, the index popped, the document read
Ran(op, sid, jam_id, outcome, song_id, idx, pre) ==
    [op |-> op, sid |-> sid, jam_id |-> jam_id, outcome |-> outcome,
     song_id |-> song_id, idx |-> idx, pre |-> pre]

\* a task that runs no handler
Idle == [op |-> "idle"]

\* playback_state written by create_session
InitialPlaybackState(ts) ==
    [current_track_index |-> 0, current_playback_time |-> 0,
     is_playing |-> FALSE, timestamp |-> ts]

\* nothing read: the handler returned before it read a document
NoRead == [playlist |-> <<>>, playback_state |-> InitialPlaybackState(0)]

\* a document whose participants lack the creator
InitialJamDataNoHost(sid, nickname, ts) ==
    [host_sid |-> sid,
     participants |-> EmptyDict,
     playlist |-> <<>>,
     playback_state |-> InitialPlaybackState(ts),
     created_at |-> ts,
     is_active |-> TRUE,
     ended_at |-> 0]

\* document written by create_session
InitialJamData(sid, nickname, ts) ==
    [host_sid |-> sid,
     participants |-> DictSet(EmptyDict, sid, nickname),
     playlist |-> <<>>,
     playback_state |-> InitialPlaybackState(ts),
     created_at |-> ts,
     is_active |-> TRUE,
     ended_at |-> 0]

\* str(uuid.uuid4()): the n-th value issued, different from all others
Uuid(n) == "u" \o ToString(n)

\* Python truthiness of a field of a song: None is falsy
Falsy(x) == x = None

\* the validation of add_song_to_jam: song has a type, and the field its
\* type needs
ValidSong(song) ==
    /\ ~Falsy(song.type)
    /\ ~(song.type = "youtube" /\ Falsy(song.videoId))
    /\ ~((song.type = "audio" \/ song.type = "youtube_download")
          /\ Falsy(song.url))

\* an add that puts the song in front of the playlist
UpdatedPlaylistInFront(jam_data, song) ==
    <<song>> \o jam_data.playlist

\* updated_playlist of add_song_to_jam: the playlist read, with song appended
UpdatedPlaylist(jam_data, song) ==
    Append(jam_data.playlist, song)

\* a search that takes the first song when no song has the id
IndexToRemoveFirstIfNone(playlist, song_id) ==
    IF \E i \in 1..Len(playlist) : playlist[i].id = song_id
    THEN (CHOOSE i \in 1..Len(playlist) :
              /\ playlist[i].id = song_id
              /\ \A k \in 1..(i - 1) : playlist[k].id # song_id) - 1
    ELSE IF Len(playlist) > 0 THEN 0 ELSE -1

\* index of the first song of playlist whose id is song_id, 0-based; -1 if none
IndexToRemove(playlist, song_id) ==
    IF \E i \in 1..Len(playlist) : playlist[i].id = song_id
    THEN (CHOOSE i \in 1..Len(playlist) :
              /\ playlist[i].id = song_id
              /\ \A k \in 1..(i - 1) : playlist[k].id # song_id) - 1
    ELSE -1

\* list.pop(index), index 0-based
Pop(playlist, index) ==
    [i \in 1..(Len(playlist) - 1) |->
        IF i <= index THEN playlist[i] ELSE playlist[i + 1]]

\* the adjustment without the wrap to 0 after the last song was removed
AdjustedTrackIndexNoWrap(current_track_index, index_to_remove, current_playlist) ==
    IF current_track_index = index_to_remove
    THEN IF Len(current_playlist) = 0 THEN 0 ELSE current_track_index
    ELSE IF current_track_index > index_to_remove
    THEN current_track_index - 1
    ELSE current_track_index

\* the adjustment without the decrement for a song removed before the
\* current one
AdjustedTrackIndexNoShift(current_track_index, index_to_remove, current_playlist) ==
    IF current_track_index = index_to_remove
    THEN IF Len(current_playlist) = 0
         THEN 0
         ELSE IF index_to_remove >= Len(current_playlist)
         THEN 0
         ELSE current_track_index
    ELSE current_track_index

\* current_track_index after the song at index_to_remove was popped;
\* current_playlist is the playlist after the pop
AdjustedTrackIndex(current_track_index, index_to_remove, current_playlist) ==
    IF current_track_index = index_to_remove
    THEN IF Len(current_playlist) = 0
         THEN 0
         ELSE IF index_to_remove >= Len(current_playlist)
         THEN 0
         ELSE current_track_index
    ELSE IF current_track_index > index_to_remove
    THEN current_track_index - 1
    ELSE current_track_index

\* join_session that writes the nickname under every key
UpdatedParticipantsAllRenamed(jam_data, sid, nickname) ==
    [s \in (DOMAIN jam_data.participants) \cup {sid} |-> nickname]

\* participants after join_session registered sid under nickname
UpdatedParticipants(jam_data, sid, nickname) ==
    DictSet(jam_data.participants, sid, nickname)

\* a playback_state that drops the position the host sent
NewPlaybackStateNoPosition(current_track_index, current_playback_time, is_playing, ts) ==
    [current_track_index |-> current_track_index,
     current_playback_time |-> 0,
     is_playing |-> is_playing,
     timestamp |-> ts]

\* new_playback_state of sync_playback_state: the three fields of the
\* request and the server's timestamp
NewPlaybackState(current_track_index, current_playback_time, is_playing, ts) ==
    [current_track_index |-> current_track_index,
     current_playback_time |-> current_playback_time,
     is_playing |-> is_playing,
     timestamp |-> ts]

\* a check that lets every participant sync
MaySyncAnyMember(jam_data, sid) ==
    sid \in DOMAIN jam_data.participants

\* the host check of sync_playback_state: only request.sid = host_sid passes
MaySync(jam_data, sid) ==
    jam_data.host_sid = sid

\* a check that lets every participant add songs
MayAddSongAnyMember(jam_data, sid) ==
    sid \in DOMAIN jam_data.participants

\* the host check of add_song_to_jam
MayAddSong(jam_data, sid) ==
    jam_data.host_sid = sid

\* the host check of remove_song_from_jam
MayRemoveSong(jam_data, sid) ==
    jam_data.host_sid = sid

\* a room emit that includes the caller
RoomWithSelf(jam_id, sid) ==
    rooms[jam_id] \cup {sid}

\* emit(..., room=jam_id, include_self=False) after join_room(jam_id): the
\* connections in the room other than the caller
RoomExceptSelf(jam_id, sid) ==
    (rooms[jam_id] \cup {sid}) \ {sid}

\* a check that lets a connection join a session that has ended
JoinableWhenEnded(jam_id) ==
    jam_id \in DOMAIN db

\* the check of join_session: the document exists and its is_active is true
Joinable(jam_id) ==
    jam_id \in DOMAIN db /\ db[jam_id].is_active

\* an id generator that hands out the id of the newest document again
NewJamIdReused ==
    IF DOMAIN db = {} THEN 1 ELSE Cardinality(DOMAIN db)

\* id Firestore generates for a new document: one no document has
NewJamId == Cardinality(DOMAIN db) + 1

Init ==
    /\ db = EmptyDict
    /\ jam_sessions = EmptyDict
    /\ sids_in_jams = EmptyDict
    /\ rooms = [j \in JamIds |-> {}]
    /\ conn = [s \in Sids |-> "new"]
    /\ clock = 1
    /\ next_uuid = 0
    /\ emitted = {}
    /\ last = Ran("init", 0, NoJam, "ok", None, 0, NoRead)
    /\ in_flight = [t \in Tasks |-> Idle]

(* ---- handlers ---- *)

\* @socketio.on('connect'): a new connection gets a sid never used before
handle_connect(sid) ==
    /\ conn[sid] = "new"
    /\ \A s \in Sids : s < sid => conn[s] # "new"
    /\ conn' = [conn EXCEPT ![sid] = "connected"]
    /\ emitted' = {}
    /\ last' = Ran("connect", sid, NoJam, "ok", None, 0, NoRead)
    /\ UNCHANGED <<db, jam_sessions, sids_in_jams, rooms, clock, next_uuid,
                   in_flight>>

\* @socketio.on('create_session')
create_session(sid, nickname) ==
    /\ conn[sid] = "connected"
    /\ NewJamId \in JamIds
    /\ LET jam_id == NewJamId
           initial_jam_data == InitialJamData(sid, nickname, clock)
       IN  /\ db' = DictSet(db, jam_id, initial_jam_data)
           /\ jam_sessions' = DictSet(jam_sessions, jam_id,
                  [host_sid |-> sid,
                   participants |-> DictSet(EmptyDict, sid, nickname),
                   playlist |-> <<>>,
                   playback_state |-> InitialPlaybackState(0)])
           /\ sids_in_jams' = DictSet(sids_in_jams, sid,
                  [jam_id |-> jam_id, nickname |-> nickname])
           /\ rooms' = [rooms EXCEPT ![jam_id] = @ \cup {sid}]
           /\ emitted' = {Event("session_created", jam_id, {sid})}
           /\ last' = Ran("create_session", sid, jam_id, "ok", None, 0, NoRead)
    /\ clock' = clock + 1
    /\ UNCHANGED <<conn, next_uuid, in_flight>>

\* @socketio.on('join_session')
join_session_handler(sid, jam_id, nickname) ==
    /\ conn[sid] = "connected"
    /\ IF jam_id = NoJam
       THEN /\ emitted' = {Event("join_failed", NoJam, {sid})}
            /\ last' = Ran("join_session", sid, jam_id, "InvalidArgument",
                           None, 0, NoRead)
            /\ UNCHANGED <<db, jam_sessions, sids_in_jams, rooms>>
       ELSE IF ~Joinable(jam_id)
       THEN /\ emitted' = {Event("join_failed", NoJam, {sid})}
            /\ last' = Ran("join_session", sid, jam_id, "NotFound",
                           None, 0, NoRead)
            /\ UNCHANGED <<db, jam_sessions, sids_in_jams, rooms>>
       ELSE LET jam_data == db[jam_id]
                updated_participants ==
                    UpdatedParticipants(jam_data, sid, nickname)
                cached ==
                    IF jam_id \notin DOMAIN jam_sessions
                    THEN [host_sid |-> jam_data.host_sid,
                          participants |-> EmptyDict,
                          playlist |-> jam_data.playlist,
                          playback_state |-> jam_data.playback_state]
                    ELSE jam_sessions[jam_id]
            IN  /\ db' = [db EXCEPT ![jam_id].participants =
                                        updated_participants]
                /\ jam_sessions' = DictSet(jam_sessions, jam_id,
                       [cached EXCEPT !.participants = updated_participants])
                /\ sids_in_jams' = DictSet(sids_in_jams, sid,
                       [jam_id |-> jam_id, nickname |-> nickname])
                /\ rooms' = [rooms EXCEPT ![jam_id] = @ \cup {sid}]
                /\ emitted' =
                       {JoinSuccess(jam_id, sid, jam_data,
                                    updated_participants),
                        ParticipantsChanged(jam_id,
                                            RoomExceptSelf(jam_id, sid),
                                            updated_participants)}
                /\ last' = Ran("join_session", sid, jam_id, "ok",
                               None, 0, NoRead)
    /\ UNCHANGED <<conn, clock, next_uuid, in_flight>>

\* a disconnect that treats every sid as a participant leaving
DisconnectFirestoreNoHostBranch(sid, jam_id) ==
    IF jam_id \in DOMAIN db /\ sid \in DOMAIN db[jam_id].participants
    THEN [db |-> [db EXCEPT ![jam_id].participants = DictDel(@, sid)],
          emitted |-> {ParticipantsChanged(jam_id, rooms[jam_id],
                           DictDel(db[jam_id].participants, sid))},
          stamped |-> FALSE]
    ELSE [db |-> db, emitted |-> {}, stamped |-> FALSE]

\* a disconnect that emits to every connection instead of the room
DisconnectFirestoreBroadcast(sid, jam_id) ==
    IF jam_id \notin DOMAIN db
    THEN [db |-> db, emitted |-> {}, stamped |-> FALSE]
    ELSE LET jam_data == db[jam_id] IN
         IF jam_data.host_sid = sid
         THEN [db |-> [db EXCEPT ![jam_id].is_active = FALSE,
                                 ![jam_id].ended_at = clock],
               emitted |-> {Event("session_ended", jam_id, Sids)},
               stamped |-> TRUE]
         ELSE IF sid \in DOMAIN jam_data.participants
         THEN [db |-> [db EXCEPT ![jam_id].participants = DictDel(@, sid)],
               emitted |-> {ParticipantsChanged(jam_id, Sids,
                                DictDel(jam_data.participants, sid))},
               stamped |-> FALSE]
         ELSE [db |-> db, emitted |-> {}, stamped |-> FALSE]

\* a disconnect whose host branch marks every document as ended
DisconnectFirestoreEndsAll(sid, jam_id) ==
    IF jam_id \notin DOMAIN db
    THEN [db |-> db, emitted |-> {}, stamped |-> FALSE]
    ELSE LET jam_data == db[jam_id] IN
         IF jam_data.host_sid = sid
         THEN [db |-> [j \in DOMAIN db |->
                          [db[j] EXCEPT !.is_active = FALSE,
                                        !.ended_at = clock]],
               emitted |-> {Event("session_ended", jam_id, rooms[jam_id])},
               stamped |-> TRUE]
         ELSE IF sid \in DOMAIN jam_data.participants
         THEN [db |-> [db EXCEPT ![jam_id].participants = DictDel(@, sid)],
               emitted |-> {ParticipantsChanged(jam_id, rooms[jam_id],
                                DictDel(jam_data.participants, sid))},
               stamped |-> FALSE]
         ELSE [db |-> db, emitted |-> {}, stamped |-> FALSE]

\* the Firestore part of handle_disconnect for a sid registered in jam_id
DisconnectFirestore(sid, jam_id) ==
    IF jam_id \notin DOMAIN db
    THEN [db |-> db, emitted |-> {}, stamped |-> FALSE]
    ELSE LET jam_data == db[jam_id] IN
         IF jam_data.host_sid = sid
         THEN [db |-> [db EXCEPT ![jam_id].is_active = FALSE,
                                 ![jam_id].ended_at = clock],
               emitted |-> {Event("session_ended", jam_id, rooms[jam_id])},
               stamped |-> TRUE]
         ELSE IF sid \in DOMAIN jam_data.participants
         THEN LET updated_participants ==
                      DictDel(jam_data.participants, sid)
              IN  [db |-> [db EXCEPT ![jam_id].participants =
                                         updated_participants],
                   emitted |-> {ParticipantsChanged(jam_id, rooms[jam_id],
                                    updated_participants)},
                   stamped |-> FALSE]
         ELSE [db |-> db, emitted |-> {}, stamped |-> FALSE]

\* the clean-up of the local tracking in handle_disconnect
DisconnectLocal(sid, jam_id) ==
    IF jam_id \in DOMAIN jam_sessions /\ jam_sessions[jam_id].host_sid = sid
    THEN DictDel(jam_sessions, jam_id)
    ELSE IF jam_id \in DOMAIN jam_sessions
            /\ sid \in DOMAIN jam_sessions[jam_id].participants
    THEN [jam_sessions EXCEPT ![jam_id].participants = DictDel(@, sid)]
    ELSE jam_sessions

\* @socketio.on('disconnect')
handle_disconnect(sid) ==
    /\ conn[sid] = "connected"
    /\ conn' = [conn EXCEPT ![sid] = "disconnected"]
    /\ IF sid \in DOMAIN sids_in_jams
       THEN LET jam_id == sids_in_jams[sid].jam_id
                fs == DisconnectFirestore(sid, jam_id)
            IN  /\ db' = fs.db
                /\ emitted' = fs.emitted
                /\ clock' = IF fs.stamped THEN clock + 1 ELSE clock
                /\ jam_sessions' = DisconnectLocal(sid, jam_id)
                /\ sids_in_jams' = DictDel(sids_in_jams, sid)
                /\ rooms' = [rooms EXCEPT ![jam_id] = @ \ {sid}]
                /\ last' = Ran("disconnect", sid, jam_id, "ok", None, 0, NoRead)
       ELSE /\ emitted' = {}
            /\ last' = Ran("disconnect", sid, NoJam, "ok", None, 0, NoRead)
            /\ UNCHANGED <<db, jam_sessions, sids_in_jams, rooms, clock>>
    /\ UNCHANGED <<next_uuid, in_flight>>

\* the 'playlist' field of a sync request: present with a list of songs
Given(songs) == [given |-> TRUE, songs |-> songs]

\* the 'playlist' field of a sync request that carries none
Missing == [given |-> FALSE, songs |-> <<>>]

\* data.get('playlist', []): the list sent, or the default [] without one
GetPlaylist(field) == IF field.given THEN field.songs ELSE <<>>

\* @socketio.on('sync_playback_state'); playlist is the request's 'playlist'
\* field, a request without 'jam_id' is one with NoJam
sync_playback_state(sid, jam_id, current_track_index, current_playback_time, is_playing, playlist) ==
    /\ conn[sid] = "connected"
    /\ emitted' = {}
    /\ IF jam_id = NoJam
       THEN /\ last' = Ran("sync_playback_state", sid, jam_id,
                           "InvalidArgument", None, 0, NoRead)
            /\ UNCHANGED <<db, clock>>
       ELSE IF jam_id \notin DOMAIN db
       THEN /\ last' = Ran("sync_playback_state", sid, jam_id, "NotFound",
                           None, 0, NoRead)
            /\ UNCHANGED <<db, clock>>
       ELSE IF ~MaySync(db[jam_id], sid)
       THEN /\ last' = Ran("sync_playback_state", sid, jam_id, "Forbidden",
                           None, 0, Read(db[jam_id]))
            /\ UNCHANGED <<db, clock>>
       ELSE /\ clock <= MaxClock
            /\ LET new_playback_state ==
                       NewPlaybackState(current_track_index,
                                        current_playback_time, is_playing,
                                        clock)
               IN  db' = [db EXCEPT ![jam_id].playback_state =
                                        new_playback_state,
                                    ![jam_id].playlist =
                                        GetPlaylist(playlist)]
            /\ clock' = clock + 1
            /\ last' = Ran("sync_playback_state", sid, jam_id, "ok",
                           None, 0, NoRead)
    /\ UNCHANGED <<jam_sessions, sids_in_jams, rooms, conn, next_uuid,
                   in_flight>>

\* @socketio.on('add_song_to_jam').  Without a song object the test
\* 'id' not in song raises TypeError before the try block: the exception
\* leaves the handler and nothing is written
add_song_to_jam(sid, jam_id, client_song) ==
    /\ conn[sid] = "connected"
    /\ emitted' = {}
    /\ (client_song # NoSong /\ Falsy(client_song.id)) => next_uuid < MaxUuid
    /\ LET new_uuid == IF client_song # NoSong /\ Falsy(client_song.id)
                       THEN next_uuid + 1
                       ELSE next_uuid
           song == IF Falsy(client_song.id)
                   THEN [client_song EXCEPT !.id = Uuid(new_uuid)]
                   ELSE client_song
       IN  /\ next_uuid' = new_uuid
           /\ IF client_song = NoSong
              THEN /\ last' = Ran("add_song_to_jam", sid, jam_id,
                                  "Exception", None, 0, NoRead)
                   /\ UNCHANGED db
              ELSE IF jam_id = NoJam \/ ~ValidSong(song)
              THEN /\ last' = Ran("add_song_to_jam", sid, jam_id,
                                  "InvalidArgument", song.id, 0, NoRead)
                   /\ UNCHANGED db
              ELSE IF jam_id \notin DOMAIN db
              THEN /\ last' = Ran("add_song_to_jam", sid, jam_id,
                                  "NotFound", song.id, 0, NoRead)
                   /\ UNCHANGED db
              ELSE IF ~MayAddSong(db[jam_id], sid)
              THEN /\ last' = Ran("add_song_to_jam", sid, jam_id,
                                  "Forbidden", song.id, 0, Read(db[jam_id]))
                   /\ UNCHANGED db
              ELSE /\ Len(db[jam_id].playlist) < MaxLen
                   /\ LET updated_playlist ==
                              UpdatedPlaylist(db[jam_id], song)
                      IN  db' = [db EXCEPT ![jam_id].playlist =
                                               updated_playlist]
                   /\ last' = Ran("add_song_to_jam", sid, jam_id, "ok",
                                  song.id, 0, Read(db[jam_id]))
    /\ UNCHANGED <<jam_sessions, sids_in_jams, rooms, conn, clock,
                   in_flight>>

\* @socketio.on('remove_song_from_jam')
remove_song_from_jam(sid, jam_id, song_id_to_remove) ==
    /\ conn[sid] = "connected"
    /\ emitted' = {}
    /\ IF jam_id = NoJam \/ Falsy(song_id_to_remove)
       THEN /\ last' = Ran("remove_song_from_jam", sid, jam_id,
                           "InvalidArgument", song_id_to_remove, 0, NoRead)
            /\ UNCHANGED db
       ELSE IF jam_id \notin DOMAIN db
       THEN /\ last' = Ran("remove_song_from_jam", sid, jam_id, "NotFound",
                           song_id_to_remove, 0, NoRead)
            /\ UNCHANGED db
       ELSE IF ~MayRemoveSong(db[jam_id], sid)
       THEN /\ last' = Ran("remove_song_from_jam", sid, jam_id, "Forbidden",
                           song_id_to_remove, 0, Read(db[jam_id]))
            /\ UNCHANGED db
       ELSE LET jam_data == db[jam_id]
                index_to_remove ==
                    IndexToRemove(jam_data.playlist, song_id_to_remove)
            IN  IF index_to_remove # -1
                THEN LET current_playlist ==
                             Pop(jam_data.playlist, index_to_remove)
                         current_track_index == AdjustedTrackIndex(
                             jam_data.playback_state.current_track_index,
                             index_to_remove, current_playlist)
                     IN  /\ db' = [db EXCEPT
                                ![jam_id].playlist = current_playlist,
                                ![jam_id].playback_state.current_track_index =
                                    current_track_index,
                                ![jam_id].playback_state.current_playback_time
                                    = 0,
                                ![jam_id].playback_state.is_playing =
                                    jam_data.playback_state.is_playing
                                    /\ Len(current_playlist) > 0]
                         /\ last' = Ran("remove_song_from_jam", sid, jam_id,
                                        "ok", song_id_to_remove,
                                        index_to_remove, Read(jam_data))
                ELSE /\ last' = Ran("remove_song_from_jam", sid, jam_id,
                                    "NotFound", song_id_to_remove, -1,
                                    Read(jam_data))
                     /\ UNCHANGED db
    /\ UNCHANGED <<jam_sessions, sids_in_jams, rooms, conn, clock, next_uuid,
                   in_flight>>

\* 'playlist' fields a host sends with a sync: none, the list the document
\* holds, or a list the client built
SyncPlaylists(jam_id) ==
    {Missing, Given(<<SongA, SongB>>)}
        \cup (IF jam_id \in DOMAIN db
              THEN {Given(db[jam_id].playlist)} ELSE {})

\* sync requests of sid for jam_id: every index, position, is_playing and
\* playlist of the model; the handler reads them only after its checks, so
\* one request stands for all those it rejects
SyncRequests(sid, jam_id) ==
    IF jam_id \in DOMAIN db /\ MaySync(db[jam_id], sid)
    THEN [current_track_index : 0..MaxLen, current_playback_time : Times,
          is_playing : BOOLEAN, playlist : SyncPlaylists(jam_id)]
    ELSE [current_track_index : {1}, current_playback_time : Times,
          is_playing : {TRUE}, playlist : {Missing}]

\* jam ids a client sends: those of the documents, and none
RequestJamIds ==
    {NoJam} \cup DOMAIN db

\* jam ids a client sends: those of the documents, and one of no document
KnownOrStaleJamIds ==
    {NewJamId} \cup DOMAIN db

\* song ids a client asks to remove: ids it chose, ids the server issued, none
RemovableIds ==
    SongIds \cup {Uuid(n) : n \in 1..next_uuid} \cup {None}

\* all handlers, from the start of the server.  The songs added carry no id,
\* a sync sends index 1 and either the stored playlist or none
Next ==
    \/ \E sid \in Sids : handle_connect(sid)
    \/ \E sid \in Sids : create_session(sid, "Host")
    \/ \E sid \in Sids, jam_id \in JamIds \cup {NoJam}, nickname \in Nicknames :
           join_session_handler(sid, jam_id, nickname)
    \/ \E sid \in Sids : handle_disconnect(sid)
    \/ \E sid \in Sids, jam_id \in KnownOrStaleJamIds :
           \E playlist \in {Missing} \cup (IF jam_id \in DOMAIN db
                                           THEN {Given(db[jam_id].playlist)}
                                           ELSE {}) :
               sync_playback_state(sid, jam_id, 1, 7, TRUE, playlist)
    \/ \E sid \in Sids, jam_id \in KnownOrStaleJamIds :
           add_song_to_jam(sid, jam_id, SongC)
    \/ \E sid \in Sids, jam_id \in KnownOrStaleJamIds,
          song_id \in {Uuid(n) : n \in 1..next_uuid} :
           remove_song_from_jam(sid, jam_id, song_id)

Spec == Init /\ [][Next]_vars

\* one session with its host (sid 1) and one guest (sid 2): the state after
\* connect, create_session, connect, join_session
PlaylistInit ==
    /\ db = DictSet(EmptyDict, 1,
                [InitialJamData(1, "Host", 1) EXCEPT
                     !.participants = DictSet(@, 2, "Guest")])
    /\ jam_sessions = DictSet(EmptyDict, 1,
                [host_sid |-> 1,
                 participants |-> DictSet(DictSet(EmptyDict, 1, "Host"),
                                          2, "Guest"),
                 playlist |-> <<>>,
                 playback_state |-> InitialPlaybackState(0)])
    /\ sids_in_jams = DictSet(DictSet(EmptyDict, 1,
                                      [jam_id |-> 1, nickname |-> "Host"]),
                              2, [jam_id |-> 1, nickname |-> "Guest"])
    /\ rooms = [j \in JamIds |-> IF j = 1 THEN {1, 2} ELSE {}]
    /\ conn = [s \in Sids |-> IF s \in {1, 2} THEN "connected" ELSE "new"]
    /\ clock = 2
    /\ next_uuid = 0
    /\ emitted = {JoinSuccess(1, 2, InitialJamData(1, "Host", 1),
                              DictSet(DictSet(EmptyDict, 1, "Host"),
                                      2, "Guest")),
                  ParticipantsChanged(1, {1},
                      DictSet(DictSet(EmptyDict, 1, "Host"), 2, "Guest"))}
    /\ last = Ran("join_session", 2, 1, "ok", None, 0, NoRead)
    /\ in_flight = [t \in Tasks |-> Idle]

\* the playback and playlist handlers on that session, with every request a
\* client can build from the model's songs
PlaylistNext ==
    \/ \E sid \in Sids, jam_id \in RequestJamIds :
           \E request \in SyncRequests(sid, jam_id) :
               sync_playback_state(sid, jam_id, request.current_track_index,
                                   request.current_playback_time,
                                   request.is_playing, request.playlist)
    \/ \E sid \in Sids, jam_id \in RequestJamIds, client_song \in ClientSongs :
           add_song_to_jam(sid, jam_id, client_song)
    \/ \E sid \in Sids, jam_id \in RequestJamIds, song_id \in RemovableIds :
           remove_song_from_jam(sid, jam_id, song_id)

PlaylistSpec == PlaylistInit /\ [][PlaylistNext]_vars

(* ---- handlers as interleaved steps ---- *)
(* The server runs under eventlet (async_mode='eventlet', monkey-patched),  *)
(* and every event is handled in a task of its own: a handler is suspended *)
(* at each Firestore call, so between its jam_ref.get() and its update()   *)
(* other handlers run.  A read step is the handler up to the document it   *)
(* read and the checks it makes on it; a write step is the rest.           *)

\* the invocation a task runs: the handler, the step it has reached,
\* request.sid, the request's jam_id and its song id or nickname, the
\* document as jam_doc.to_dict() returned it, and the branch it ended in
Invocation(op, step, sid, jam_id, arg, jam_data, outcome) ==
    [op |-> op, step |-> step, sid |-> sid, jam_id |-> jam_id, arg |-> arg,
     jam_data |-> jam_data, outcome |-> outcome]

\* the next task to start a handler: tasks start in order
FreeTask(t) ==
    /\ in_flight[t].op = "idle"
    /\ \A u \in Tasks : u < t => in_flight[u].op # "idle"

\* task t has read its document and has not written yet
HasRead(t, op) ==
    /\ in_flight[t].op = op
    /\ in_flight[t].step = "read"

\* task t has returned
Returned(t, outcome) ==
    [in_flight EXCEPT ![t].step = "done", ![t].outcome = outcome]

\* remove_song_from_jam up to the host check on the document it read; a
\* request it rejects returns at once
remove_song_read(t, sid, jam_id, song_id_to_remove) ==
    /\ FreeTask(t)
    /\ IF \/ jam_id = NoJam
          \/ Falsy(song_id_to_remove)
          \/ jam_id \notin DOMAIN db
          \/ ~MayRemoveSong(db[jam_id], sid)
       THEN remove_song_from_jam(sid, jam_id, song_id_to_remove)
       ELSE /\ conn[sid] = "connected"
            /\ in_flight' = [in_flight EXCEPT ![t] =
                   Invocation("remove_song_from_jam", "read", sid, jam_id,
                              song_id_to_remove, db[jam_id], "pending")]
            /\ UNCHANGED <<db, jam_sessions, sids_in_jams, rooms, conn, clock,
                           next_uuid, emitted, last>>

\* remove_song_from_jam from the search of the playlist it read to the update
remove_song_write(t) ==
    /\ HasRead(t, "remove_song_from_jam")
    /\ emitted' = {}
    /\ LET sid == in_flight[t].sid
           jam_id == in_flight[t].jam_id
           song_id_to_remove == in_flight[t].arg
           jam_data == in_flight[t].jam_data
           index_to_remove ==
               IndexToRemove(jam_data.playlist, song_id_to_remove)
       IN  IF index_to_remove # -1
           THEN LET current_playlist ==
                        Pop(jam_data.playlist, index_to_remove)
                    current_track_index == AdjustedTrackIndex(
                        jam_data.playback_state.current_track_index,
                        index_to_remove, current_playlist)
                IN  /\ db' = [db EXCEPT
                           ![jam_id].playlist = current_playlist,
                           ![jam_id].playback_state.current_track_index =
                               current_track_index,
                           ![jam_id].playback_state.current_playback_time = 0,
                           ![jam_id].playback_state.is_playing =
                               jam_data.playback_state.is_playing
                               /\ Len(current_playlist) > 0]
                    /\ last' = Ran("remove_song_from_jam", sid, jam_id, "ok",
                                   song_id_to_remove, index_to_remove,
                                   Read(jam_data))
                    /\ in_flight' = Returned(t, "ok")
           ELSE /\ last' = Ran("remove_song_from_jam", sid, jam_id,
                               "NotFound", song_id_to_remove, -1,
                               Read(jam_data))
                /\ in_flight' = Returned(t, "NotFound")
                /\ UNCHANGED db
    /\ UNCHANGED <<jam_sessions, sids_in_jams, rooms, conn, clock, next_uuid>>

\* join_session up to the is_active check on the document it read; a request
\* it rejects returns at once
join_session_read(t, sid, jam_id, nickname) ==
    /\ FreeTask(t)
    /\ IF jam_id = NoJam \/ ~Joinable(jam_id)
       THEN join_session_handler(sid, jam_id, nickname)
       ELSE /\ conn[sid] = "connected"
            /\ in_flight' = [in_flight EXCEPT ![t] =
                   Invocation("join_session", "read", sid, jam_id, nickname,
                              db[jam_id], "pending")]
            /\ UNCHANGED <<db, jam_sessions, sids_in_jams, rooms, conn, clock,
                           next_uuid, emitted, last>>

\* a join_session that writes back the whole document it read
join_session_write_whole_document(t) ==
    /\ HasRead(t, "join_session")
    /\ LET sid == in_flight[t].sid
           jam_id == in_flight[t].jam_id
           nickname == in_flight[t].arg
           jam_data == in_flight[t].jam_data
           updated_participants ==
               UpdatedParticipants(jam_data, sid, nickname)
       IN  /\ db' = [db EXCEPT ![jam_id] =
                         [jam_data EXCEPT !.participants =
                                              updated_participants]]
           /\ jam_sessions' = DictSet(jam_sessions, jam_id,
                  [host_sid |-> jam_data.host_sid,
                   participants |-> updated_participants,
                   playlist |-> jam_data.playlist,
                   playback_state |-> jam_data.playback_state])
           /\ sids_in_jams' = DictSet(sids_in_jams, sid,
                  [jam_id |-> jam_id, nickname |-> nickname])
           /\ rooms' = [rooms EXCEPT ![jam_id] = @ \cup {sid}]
           /\ emitted' =
                  {JoinSuccess(jam_id, sid, jam_data, updated_participants),
                   ParticipantsChanged(jam_id, RoomExceptSelf(jam_id, sid),
                                       updated_participants)}
           /\ last' = Ran("join_session", sid, jam_id, "ok", None, 0, NoRead)
    /\ in_flight' = Returned(t, "ok")
    /\ UNCHANGED <<conn, clock, next_uuid>>

\* join_session from the update of the participants it read to its emits
join_session_write(t) ==
    /\ HasRead(t, "join_session")
    /\ LET sid == in_flight[t].sid
           jam_id == in_flight[t].jam_id
           nickname == in_flight[t].arg
           jam_data == in_flight[t].jam_data
           updated_participants ==
               UpdatedParticipants(jam_data, sid, nickname)
           cached ==
               IF jam_id \notin DOMAIN jam_sessions
               THEN [host_sid |-> jam_data.host_sid,
                     participants |-> EmptyDict,
                     playlist |-> jam_data.playlist,
                     playback_state |-> jam_data.playback_state]
               ELSE jam_sessions[jam_id]
       IN  /\ db' = [db EXCEPT ![jam_id].participants = updated_participants]
           /\ jam_sessions' = DictSet(jam_sessions, jam_id,
                  [cached EXCEPT !.participants = updated_participants])
           /\ sids_in_jams' = DictSet(sids_in_jams, sid,
                  [jam_id |-> jam_id, nickname |-> nickname])
           /\ rooms' = [rooms EXCEPT ![jam_id] = @ \cup {sid}]
           /\ emitted' =
                  {JoinSuccess(jam_id, sid, jam_data, updated_participants),
                   ParticipantsChanged(jam_id, RoomExceptSelf(jam_id, sid),
                                       updated_participants)}
           /\ last' = Ran("join_session", sid, jam_id, "ok", None, 0, NoRead)
    /\ in_flight' = Returned(t, "ok")
    /\ UNCHANGED <<conn, clock, next_uuid>>

\* handle_disconnect up to the document it read; without a registry entry
\* or a document there is nothing to write
handle_disconnect_read(t, sid) ==
    /\ FreeTask(t)
    /\ IF sid \notin DOMAIN sids_in_jams
          \/ sids_in_jams[sid].jam_id \notin DOMAIN db
       THEN handle_disconnect(sid)
       ELSE /\ conn[sid] = "connected"
            /\ conn' = [conn EXCEPT ![sid] = "disconnected"]
            /\ in_flight' = [in_flight EXCEPT ![t] =
                   Invocation("disconnect", "read", sid,
                              sids_in_jams[sid].jam_id, None,
                              db[sids_in_jams[sid].jam_id], "pending")]
            /\ UNCHANGED <<db, jam_sessions, sids_in_jams, rooms, clock,
                           next_uuid, emitted, last>>

\* handle_disconnect from its update to leave_room
handle_disconnect_write(t) ==
    /\ HasRead(t, "disconnect")
    /\ LET sid == in_flight[t].sid
           jam_id == in_flight[t].jam_id
           jam_data == in_flight[t].jam_data
       IN  /\ IF jam_data.host_sid = sid
              THEN /\ db' = [db EXCEPT ![jam_id].is_active = FALSE,
                                       ![jam_id].ended_at = clock]
                   /\ emitted' =
                          {Event("session_ended", jam_id, rooms[jam_id])}
                   /\ clock' = clock + 1
              ELSE IF sid \in DOMAIN jam_data.participants
              THEN LET updated_participants ==
                           DictDel(jam_data.participants, sid)
                   IN  /\ db' = [db EXCEPT ![jam_id].participants =
                                               updated_participants]
                       /\ emitted' = {ParticipantsChanged(jam_id,
                                          rooms[jam_id],
                                          updated_participants)}
                       /\ UNCHANGED clock
              ELSE /\ emitted' = {}
                   /\ UNCHANGED <<db, clock>>
           /\ jam_sessions' = DisconnectLocal(sid, jam_id)
           /\ sids_in_jams' = DictDel(sids_in_jams, sid)
           /\ rooms' = [rooms EXCEPT ![jam_id] = @ \ {sid}]
           /\ last' = Ran("disconnect", sid, jam_id, "ok", None, 0, NoRead)
    /\ in_flight' = Returned(t, "ok")
    /\ UNCHANGED <<conn, next_uuid>>

\* the song without id of the model, under the id the server gave it
SongC1 == [SongC EXCEPT !.id = Uuid(1)]

\* one session of sid 1 with two songs, and a connection (sid 2) that has
\* joined nothing: the state after connect, create_session, connect,
\* add_song_to_jam(SongA), add_song_to_jam(SongC)
RaceInit ==
    /\ db = DictSet(EmptyDict, 1,
                [InitialJamData(1, "Host", 1) EXCEPT
                     !.playlist = <<SongA, SongC1>>])
    /\ jam_sessions = DictSet(EmptyDict, 1,
                [host_sid |-> 1,
                 participants |-> DictSet(EmptyDict, 1, "Host"),
                 playlist |-> <<>>,
                 playback_state |-> InitialPlaybackState(0)])
    /\ sids_in_jams = DictSet(EmptyDict, 1,
                              [jam_id |-> 1, nickname |-> "Host"])
    /\ rooms = [j \in JamIds |-> IF j = 1 THEN {1} ELSE {}]
    /\ conn = [s \in Sids |-> IF s \in {1, 2} THEN "connected" ELSE "new"]
    /\ clock = 2
    /\ next_uuid = 1
    /\ emitted = {}
    /\ last = Ran("add_song_to_jam", 1, 1, "ok", Uuid(1), 0,
                  [playlist |-> <<SongA>>,
                   playback_state |-> InitialPlaybackState(1)])
    /\ in_flight = [t \in Tasks |-> Idle]

\* the handlers that read a document and write it back, as interleaved
\* tasks on that session
RaceNext ==
    \/ \E t \in Tasks, sid \in Sids, jam_id \in RequestJamIds :
           \E song_id \in RemovableIds :
               remove_song_read(t, sid, jam_id, song_id)
    \/ \E t \in Tasks : remove_song_write(t)
    \/ \E t \in Tasks, sid \in Sids, jam_id \in RequestJamIds :
           \E nickname \in Nicknames :
               join_session_read(t, sid, jam_id, nickname)
    \/ \E t \in Tasks : join_session_write(t)
    \/ \E t \in Tasks, sid \in Sids : handle_disconnect_read(t, sid)
    \/ \E t \in Tasks : handle_disconnect_write(t)

RaceSpec == RaceInit /\ [][RaceNext]_vars

\* sync_playback_state up to the host check on the document it read; a
\* request it rejects returns at once
sync_playback_read(t, sid, jam_id, request) ==
    /\ FreeTask(t)
    /\ IF \/ jam_id = NoJam
          \/ jam_id \notin DOMAIN db
          \/ ~MaySync(db[jam_id], sid)
       THEN sync_playback_state(sid, jam_id, request.current_track_index,
                                request.current_playback_time,
                                request.is_playing, request.playlist)
       ELSE /\ conn[sid] = "connected"
            /\ in_flight' = [in_flight EXCEPT ![t] =
                   Invocation("sync_playback_state", "read", sid, jam_id,
                              request, db[jam_id], "pending")]
            /\ UNCHANGED <<db, jam_sessions, sids_in_jams, rooms, conn, clock,
                           next_uuid, emitted, last>>

\* sync_playback_state from new_playback_state to the update
sync_playback_write(t) ==
    /\ HasRead(t, "sync_playback_state")
    /\ clock <= MaxClock
    /\ emitted' = {}
    /\ LET sid == in_flight[t].sid
           jam_id == in_flight[t].jam_id
           request == in_flight[t].arg
           new_playback_state ==
               NewPlaybackState(request.current_track_index,
                                request.current_playback_time,
                                request.is_playing, clock)
       IN  /\ db' = [db EXCEPT ![jam_id].playback_state = new_playback_state,
                               ![jam_id].playlist =
                                   GetPlaylist(request.playlist)]
           /\ last' = Ran("sync_playback_state", sid, jam_id, "ok", None, 0,
                          NoRead)
    /\ clock' = clock + 1
    /\ in_flight' = Returned(t, "ok")
    /\ UNCHANGED <<jam_sessions, sids_in_jams, rooms, conn, next_uuid>>

\* add_song_to_jam up to the host check on the document it read, the id of
\* the song assigned before; a request it rejects returns at once
add_song_read(t, sid, jam_id, client_song) ==
    /\ FreeTask(t)
    /\ IF \/ client_song = NoSong
          \/ jam_id = NoJam
          \/ ~ValidSong(client_song)
          \/ jam_id \notin DOMAIN db
          \/ ~MayAddSong(db[jam_id], sid)
       THEN add_song_to_jam(sid, jam_id, client_song)
       ELSE /\ conn[sid] = "connected"
            /\ Falsy(client_song.id) => next_uuid < MaxUuid
            /\ Len(db[jam_id].playlist) < MaxLen
            /\ LET new_uuid == IF Falsy(client_song.id)
                               THEN next_uuid + 1
                               ELSE next_uuid
                   song == IF Falsy(client_song.id)
                           THEN [client_song EXCEPT !.id = Uuid(new_uuid)]
                           ELSE client_song
               IN  /\ next_uuid' = new_uuid
                   /\ in_flight' = [in_flight EXCEPT ![t] =
                          Invocation("add_song_to_jam", "read", sid, jam_id,
                                     song, db[jam_id], "pending")]
            /\ UNCHANGED <<db, jam_sessions, sids_in_jams, rooms, conn, clock,
                           emitted, last>>

\* add_song_to_jam from the append to the playlist it read to the update
add_song_write(t) ==
    /\ HasRead(t, "add_song_to_jam")
    /\ emitted' = {}
    /\ LET sid == in_flight[t].sid
           jam_id == in_flight[t].jam_id
           song == in_flight[t].arg
           jam_data == in_flight[t].jam_data
           updated_playlist == UpdatedPlaylist(jam_data, song)
       IN  /\ db' = [db EXCEPT ![jam_id].playlist = updated_playlist]
           /\ last' = Ran("add_song_to_jam", sid, jam_id, "ok", song.id, 0,
                          Read(jam_data))
    /\ in_flight' = Returned(t, "ok")
    /\ UNCHANGED <<jam_sessions, sids_in_jams, rooms, conn, clock, next_uuid>>

\* one session of sid 1 with one song, and a connection (sid 2) that has
\* joined nothing: the state after connect, create_session, connect,
\* add_song_to_jam(SongA)
MembershipRaceInit ==
    /\ db = DictSet(EmptyDict, 1,
                [InitialJamData(1, "Host", 1) EXCEPT
                     !.playlist = <<SongA>>])
    /\ jam_sessions = DictSet(EmptyDict, 1,
                [host_sid |-> 1,
                 participants |-> DictSet(EmptyDict, 1, "Host"),
                 playlist |-> <<>>,
                 playback_state |-> InitialPlaybackState(0)])
    /\ sids_in_jams = DictSet(EmptyDict, 1,
                              [jam_id |-> 1, nickname |-> "Host"])
    /\ rooms = [j \in JamIds |-> IF j = 1 THEN {1} ELSE {}]
    /\ conn = [s \in Sids |-> IF s \in {1, 2} THEN "connected" ELSE "new"]
    /\ clock = 2
    /\ next_uuid = 0
    /\ emitted = {}
    /\ last = Ran("add_song_to_jam", 1, 1, "ok", "t1", 0,
                  [playlist |-> <<>>,
                   playback_state |-> InitialPlaybackState(1)])
    /\ in_flight = [t \in Tasks |-> Idle]

\* sync requests of the interleaved runs: index 1 at position 7, playing,
\* with the stored playlist or without one
RaceSyncRequests(jam_id) ==
    [current_track_index : {1}, current_playback_time : Times,
     is_playing : {TRUE},
     playlist : {Missing} \cup (IF jam_id \in DOMAIN db
                                THEN {Given(db[jam_id].playlist)} ELSE {})]

\* join_session and disconnect interleaved with the handlers that write the
\* playlist and the playback_state of that session
MembershipRaceNext ==
    \/ \E t \in Tasks, sid \in Sids, jam_id \in RequestJamIds :
           \E nickname \in Nicknames :
               join_session_read(t, sid, jam_id, nickname)
    \/ \E t \in Tasks : join_session_write(t)
    \/ \E t \in Tasks, sid \in Sids : handle_disconnect_read(t, sid)
    \/ \E t \in Tasks : handle_disconnect_write(t)
    \/ \E t \in Tasks, sid \in Sids, jam_id \in RequestJamIds :
           \E request \in RaceSyncRequests(jam_id) :
               sync_playback_read(t, sid, jam_id, request)
    \/ \E t \in Tasks : sync_playback_write(t)
    \/ \E t \in Tasks, sid \in Sids, jam_id \in RequestJamIds :
           \E client_song \in {SongB, SongC} :
               add_song_read(t, sid, jam_id, client_song)
    \/ \E t \in Tasks : add_song_write(t)
    \/ \E t \in Tasks, sid \in Sids, jam_id \in RequestJamIds :
           \E song_id \in RemovableIds :
               remove_song_read(t, sid, jam_id, song_id)
    \/ \E t \in Tasks : remove_song_write(t)

MembershipRaceSpec == MembershipRaceInit /\ [][MembershipRaceNext]_vars

(* ---- properties ---- *)

\* 0 <= current_track_index < max(1, len(playlist))
InRange(d) ==
    /\ 0 <= d.playback_state.current_track_index
    /\ d.playback_state.current_track_index
           < (IF Len(d.playlist) = 0 THEN 1 ELSE Len(d.playlist))

\* C1: every active session has its host_sid among the keys of its
\* participants, after any sequence of handlers
C1_HostIsMember ==
    \A j \in DOMAIN db :
        db[j].is_active => db[j].host_sid \in DOMAIN db[j].participants

\* C1 witness: a guest has just disconnected from an active session that
\* still lists its host
C1_Witness ==
    /\ last.op = "disconnect"
    /\ last.jam_id \in DOMAIN db
    /\ db[last.jam_id].is_active
    /\ last.sid # db[last.jam_id].host_sid
    /\ db[last.jam_id].host_sid \in DOMAIN db[last.jam_id].participants

\* C2 as claimed: in every reachable state every session has
\* 0 <= current_track_index < max(1, len(playlist))
C2_IndexInRange ==
    \A j \in DOMAIN db : InRange(db[j])

\* C2 as amended: every handler run other than a successful host sync keeps
\* the index of a session in range when it was in range, and a new session
\* starts in range
C2_OnlySyncBreaksRange ==
    [][~(last'.op = "sync_playback_state" /\ last'.outcome = "ok")
          => \A j \in DOMAIN db' :
                 (j \in DOMAIN db => InRange(db[j])) => InRange(db'[j])]_vars

\* C2 witness: a song before the current one was removed from a session
\* whose index was in range, and the index is in range afterwards
C2_Witness ==
    /\ last.op = "remove_song_from_jam"
    /\ last.outcome = "ok"
    /\ InRange(last.pre)
    /\ last.idx < last.pre.playback_state.current_track_index
    /\ InRange(db[last.jam_id])

\* C3: when a connection disconnects, every active session it hosts becomes
\* inactive with ended_at stamped, and session_ended goes to that session's
\* room
C3_HostDisconnectEndsItsSessions ==
    [][last'.op = "disconnect"
          => \A j \in DOMAIN db :
                 (db[j].is_active /\ db[j].host_sid = last'.sid)
                     => /\ ~db'[j].is_active
                        /\ db'[j].ended_at # 0
                        /\ Event("session_ended", j, rooms[j]) \in emitted']_vars

\* C4: a session that is inactive stays inactive under every handler, and
\* create_session never yields the id of an existing session
C4_EndedIsTerminal ==
    [][/\ \A j \in DOMAIN db :
              ~db[j].is_active => (j \in DOMAIN db' /\ ~db'[j].is_active)
       /\ last'.op = "create_session" => last'.jam_id \notin DOMAIN db]_vars

\* C4 witness: a session was created after another one had ended, and the
\* ended one is still inactive
C4_Witness ==
    /\ last.op = "create_session"
    /\ \E j \in DOMAIN db : j # last.jam_id /\ ~db[j].is_active

\* C5: no handler emits an event that carries the id of a session whose
\* session_ended was emitted before (the host's disconnect emits it in the
\* step that makes the session inactive)
C5_NoEventAfterSessionEnded ==
    [][\A e \in emitted' :
           ~(e.jam_id \in DOMAIN db /\ ~db[e.jam_id].is_active)]_vars

\* C6: add_song_to_jam or remove_song_from_jam by a member that is not the
\* host (no member other than the host holds a permission) changes no
\* document, and a request that carries its song and passes the request
\* validation takes the Forbidden branch
C6_NonHostCannotAddOrRemove ==
    [][(/\ last'.op \in {"add_song_to_jam", "remove_song_from_jam"}
        /\ last'.jam_id \in DOMAIN db
        /\ last'.sid \in DOMAIN db[last'.jam_id].participants
        /\ last'.sid # db[last'.jam_id].host_sid)
          => /\ db' = db
             /\ last'.outcome \notin {"InvalidArgument", "Exception"}
                    => last'.outcome = "Forbidden"]_vars

\* C6 witness: a guest's add_song_to_jam was refused on a session that has
\* songs and is playing
C6_Witness ==
    /\ last.op = "add_song_to_jam"
    /\ last.outcome = "Forbidden"
    /\ last.sid \in DOMAIN db[last.jam_id].participants
    /\ Len(db[last.jam_id].playlist) > 0
    /\ db[last.jam_id].playback_state.is_playing

\* C7: sync_playback_state by a connection that is not the session's host
\* takes the Forbidden branch and changes no document
C7_NonHostCannotSync ==
    [][(/\ last'.op = "sync_playback_state"
        /\ last'.jam_id \in DOMAIN db
        /\ last'.sid # db[last'.jam_id].host_sid)
          => /\ last'.outcome = "Forbidden"
             /\ db' = db]_vars

\* C7 witness: a guest's sync was refused on a session whose host had
\* synced a playlist and a position before
C7_Witness ==
    /\ last.op = "sync_playback_state"
    /\ last.outcome = "Forbidden"
    /\ Len(db[last.jam_id].playlist) > 0
    /\ db[last.jam_id].playback_state.current_playback_time = 7

\* C8: a successful join_session by a connection that is already a key of
\* the session's participants leaves the key set, every other member's
\* nickname and the host (the only holder of permissions) as they were
C8_JoinIdempotent ==
    [][(/\ last'.op = "join_session"
        /\ last'.outcome = "ok"
        /\ last'.sid \in DOMAIN db[last'.jam_id].participants)
          => LET before == db[last'.jam_id]
                 after == db'[last'.jam_id]
             IN  /\ DOMAIN after.participants = DOMAIN before.participants
                 /\ \A s \in DOMAIN before.participants \ {last'.sid} :
                        after.participants[s] = before.participants[s]
                 /\ after.host_sid = before.host_sid]_vars

\* C8 witness: the host joined its own session of two members again under
\* another nickname
C8_Witness ==
    /\ last.op = "join_session"
    /\ last.outcome = "ok"
    /\ last.sid = db[last.jam_id].host_sid
    /\ db[last.jam_id].participants[last.sid] = "Guest"
    /\ Cardinality(DOMAIN db[last.jam_id].participants) = 2

\* C9: add_song_to_jam by the host followed at once by remove_song_from_jam
\* with the id of the song just added leaves the playlist as it was before
\* the add
C9_AddRemoveRoundTrip ==
    [][(/\ last.op = "add_song_to_jam"
        /\ last.outcome = "ok"
        /\ last'.op = "remove_song_from_jam"
        /\ last'.outcome = "ok"
        /\ last'.sid = last.sid
        /\ last'.jam_id = last.jam_id
        /\ last'.song_id = last.song_id)
          => db'[last.jam_id].playlist = last.pre.playlist]_vars

\* C10: after remove_song_from_jam removed the song at current_track_index:
\* an empty playlist has index 0 and is not playing; else the index is 0 if
\* the last song was removed; else the index is unchanged and designates the
\* former next song; current_playback_time is 0
C10_RemoveCurrentTrack ==
    (/\ last.op = "remove_song_from_jam"
     /\ last.outcome = "ok"
     /\ last.idx = last.pre.playback_state.current_track_index)
        => LET before == last.pre
               after == db[last.jam_id]
               index == after.playback_state.current_track_index
           IN  /\ after.playback_state.current_playback_time = 0
               /\ IF Len(after.playlist) = 0
                  THEN index = 0 /\ ~after.playback_state.is_playing
                  ELSE IF last.idx = Len(before.playlist) - 1
                  THEN index = 0
                  ELSE /\ index = last.idx
                       /\ after.playlist[index + 1]
                              = before.playlist[last.idx + 2]

\* C10 witness: the first of two songs was removed while it was the current
\* one at position 7, and the second is the current one now
C10_Witness ==
    /\ last.op = "remove_song_from_jam"
    /\ last.outcome = "ok"
    /\ last.idx = 0
    /\ last.pre.playback_state.current_track_index = 0
    /\ last.pre.playback_state.current_playback_time = 7
    /\ Len(last.pre.playlist) = 2
    /\ db[last.jam_id].playlist = <<last.pre.playlist[2]>>

\* C11: after remove_song_from_jam removed a song whose index is smaller
\* than current_track_index, the index is one less, and the song it
\* designated before (if it designated one) is the song it designates now
C11_RemoveBeforeCurrentShifts ==
    (/\ last.op = "remove_song_from_jam"
     /\ last.outcome = "ok"
     /\ last.idx < last.pre.playback_state.current_track_index)
        => LET before == last.pre
               after == db[last.jam_id]
               old == before.playback_state.current_track_index
               index == after.playback_state.current_track_index
           IN  /\ index = old - 1
               /\ old < Len(before.playlist)
                      => after.playlist[index + 1] = before.playlist[old + 1]

\* C11 witness: the first of two songs was removed while the second was the
\* current one, and the second is still the current one
C11_Witness ==
    /\ last.op = "remove_song_from_jam"
    /\ last.outcome = "ok"
    /\ last.idx = 0
    /\ Len(last.pre.playlist) = 2
    /\ last.pre.playback_state.current_track_index = 1
    /\ db[last.jam_id].playback_state.current_track_index = 0
    /\ db[last.jam_id].playlist = <<last.pre.playlist[2]>>

\* C12: after remove_song_from_jam removed a song whose index is greater
\* than current_track_index, current_track_index, current_playback_time and
\* is_playing are those read before the removal
C12_RemoveAfterCurrentKeepsPlayback ==
    (/\ last.op = "remove_song_from_jam"
     /\ last.outcome = "ok"
     /\ last.idx > last.pre.playback_state.current_track_index)
        => LET before == last.pre.playback_state
               after == db[last.jam_id].playback_state
           IN  /\ after.current_track_index = before.current_track_index
               /\ after.current_playback_time = before.current_playback_time
               /\ after.is_playing = before.is_playing

\* C13: when two remove_song_from_jam invocations for two different songs of
\* the same session have both run to their update, the session's playlist
\* holds neither song, whatever the order of their read and write steps
C13_ConcurrentRemovesBothApply ==
    \A t \in Tasks, u \in Tasks :
        (/\ t # u
         /\ in_flight[t].op = "remove_song_from_jam"
         /\ in_flight[u].op = "remove_song_from_jam"
         /\ in_flight[t].step = "done" /\ in_flight[t].outcome = "ok"
         /\ in_flight[u].step = "done" /\ in_flight[u].outcome = "ok"
         /\ in_flight[t].jam_id = in_flight[u].jam_id
         /\ in_flight[t].arg # in_flight[u].arg)
            => LET playlist == db[in_flight[t].jam_id].playlist
               IN  \A i \in 1..Len(playlist) :
                       playlist[i].id \notin {in_flight[t].arg,
                                              in_flight[u].arg}

\* C14: when two join_session invocations of two different connections for
\* the same active session have both run to session_join_success, both
\* connections are keys of the session's participants, whatever the order of
\* their read and write steps
C14_ConcurrentJoinsBothRegistered ==
    \A t \in Tasks, u \in Tasks :
        (/\ t # u
         /\ in_flight[t].op = "join_session"
         /\ in_flight[u].op = "join_session"
         /\ in_flight[t].step = "done" /\ in_flight[t].outcome = "ok"
         /\ in_flight[u].step = "done" /\ in_flight[u].outcome = "ok"
         /\ in_flight[t].jam_id = in_flight[u].jam_id
         /\ in_flight[t].sid # in_flight[u].sid)
            => {in_flight[t].sid, in_flight[u].sid}
                   \subseteq DOMAIN db[in_flight[t].jam_id].participants

\* C15: a successful sync_playback_state of the host leaves the session with
\* exactly the state of that call: the three fields it sent with the
\* server's timestamp, and the playlist it sent, written in one update; so
\* after two calls in sequence the session holds the second call's state
\* and at no time fields of both
C15_SyncLastWriteWins ==
    [][(last'.op = "sync_playback_state" /\ last'.outcome = "ok")
          => \A sid \in {last'.sid}, jam_id \in {last'.jam_id} :
                 \A request \in SyncRequests(sid, jam_id) :
                     sync_playback_state(sid, jam_id,
                                         request.current_track_index,
                                         request.current_playback_time,
                                         request.is_playing,
                                         request.playlist)
                         => /\ db'[jam_id].playback_state =
                                   [current_track_index |->
                                        request.current_track_index,
                                    current_playback_time |->
                                        request.current_playback_time,
                                    is_playing |-> request.is_playing,
                                    timestamp |-> clock]
                            /\ request.playlist.given
                                   => db'[jam_id].playlist =
                                          request.playlist.songs
                            /\ db'[jam_id].participants =
                                   db[jam_id].participants
                            /\ db'[jam_id].host_sid = db[jam_id].host_sid
                            /\ db'[jam_id].is_active =
                                   db[jam_id].is_active]_vars

\* C15 witness: the host's second sync in sequence has completed; the
\* session holds the state of that call under the second timestamp
C15_Witness ==
    /\ last.op = "sync_playback_state"
    /\ last.outcome = "ok"
    /\ db[last.jam_id].playback_state =
           [current_track_index |-> 1, current_playback_time |-> 7,
            is_playing |-> FALSE, timestamp |-> 3]
    /\ db[last.jam_id].playlist = <<>>

\* C16: join_session with the id of no document, or of a session whose
\* is_active is false, takes the NotFound branch: join_failed goes to the
\* caller only, and the documents, the rooms, the registry sids_in_jams and
\* the cache jam_sessions are as before
C16_FailedJoinChangesNothing ==
    [][(/\ last'.op = "join_session"
        /\ last'.jam_id # NoJam
        /\ (last'.jam_id \notin DOMAIN db \/ ~db[last'.jam_id].is_active))
          => /\ last'.outcome = "NotFound"
             /\ emitted' = {[event |-> "join_failed", jam_id |-> NoJam,
                             to |-> {last'.sid}]}
             /\ db' = db
             /\ rooms' = rooms
             /\ sids_in_jams' = sids_in_jams
             /\ jam_sessions' = jam_sessions]_vars

\* C16 witness: a connection registered nowhere was refused by a session
\* that its host's disconnect had ended and that still has members
C16_Witness ==
    /\ last.op = "join_session"
    /\ last.outcome = "NotFound"
    /\ last.jam_id \in DOMAIN db
    /\ ~db[last.jam_id].is_active
    /\ last.sid \notin DOMAIN sids_in_jams
    /\ last.sid \notin DOMAIN db[last.jam_id].participants
    /\ db[last.jam_id].participants # EmptyDict

\* C17: a sync_playback_state, add_song_to_jam or remove_song_from_jam that
\* changed the session emits exactly one event for that session, to all
\* connections in the session's room
C17_MutationFansOut ==
    [][(/\ last'.op \in {"sync_playback_state", "add_song_to_jam",
                         "remove_song_from_jam"}
        /\ last'.outcome = "ok")
          => \E e \in emitted' :
                 /\ e.jam_id = last'.jam_id
                 /\ e.to = rooms'[last'.jam_id]
                 /\ \A f \in emitted' : f.jam_id = last'.jam_id => f = e]_vars

\* connections an event reaches: those it is sent to that are connected
Delivered(e) ==
    {s \in e.to : conn[s] = "connected"}

\* C18: every session_ended or update_participants event of a session
\* reaches only connections that are keys of that session's participants
C18_FanOutIsolation ==
    \A e \in emitted :
        e.event \in {"session_ended", "update_participants"}
            => \A s \in Delivered(e) :
                   s \in DOMAIN db[e.jam_id].participants

\* C18 witness: the host of one session joined another session; the
\* update_participants of that join reached the other session's host and
\* nobody else
C18_Witness ==
    /\ last.op = "join_session"
    /\ last.outcome = "ok"
    /\ \E j \in DOMAIN db : j # last.jam_id /\ db[j].host_sid = last.sid
    /\ \E e \in emitted :
           /\ e.event = "update_participants"
           /\ e.jam_id = last.jam_id
           /\ Delivered(e) = {db[last.jam_id].host_sid}
           /\ last.sid # db[last.jam_id].host_sid

\* C19: create_session writes a new document whose host_sid is the caller,
\* whose participants are exactly {caller: nickname}, whose playlist is
\* empty, whose playback_state is index 0, position 0, not playing, and
\* whose is_active is true; session_created goes to the caller only
C19_CreateSession ==
    [][last'.op = "create_session"
          => \A sid \in Sids, nickname \in Nicknames :
                 create_session(sid, nickname)
                     => LET jam_id == last'.jam_id
                            jam == db'[jam_id]
                        IN  /\ jam_id \notin DOMAIN db
                            /\ jam.host_sid = sid
                            /\ jam.participants = [s \in {sid} |-> nickname]
                            /\ jam.playlist = <<>>
                            /\ jam.playback_state.current_track_index = 0
                            /\ jam.playback_state.current_playback_time = 0
                            /\ jam.playback_state.is_playing = FALSE
                            /\ jam.is_active = TRUE
                            /\ emitted' = {[event |-> "session_created",
                                            jam_id |-> jam_id,
                                            to |-> {sid}]}]_vars

\* C19 witness: a connection that is a guest of the first session has
\* created the second one
C19_Witness ==
    /\ last.op = "create_session"
    /\ last.jam_id = 2
    /\ db[2].host_sid = last.sid
    /\ db[1].host_sid # last.sid
    /\ last.sid \in DOMAIN db[1].participants
    /\ DOMAIN db[2].participants = {last.sid}

\* C20: a successful join_session of a connection that is no key of the
\* session's participants leaves the participants as before plus the caller
\* under its nickname (one more entry), leaves playlist and playback_state
\* as they are, and sends exactly those to the caller in
\* session_join_success
C20_JoinAddsOneMember ==
    [][(last'.op = "join_session" /\ last'.outcome = "ok")
          => \A sid \in Sids, jam_id \in DOMAIN db, nickname \in Nicknames :
                 (/\ join_session_handler(sid, jam_id, nickname)
                  /\ sid \notin DOMAIN db[jam_id].participants)
                     => LET before == db[jam_id]
                            after == db'[jam_id]
                        IN  /\ after.participants =
                                   [s \in DOMAIN before.participants \cup {sid}
                                       |-> IF s = sid THEN nickname
                                           ELSE before.participants[s]]
                            /\ Cardinality(DOMAIN after.participants) =
                                   Cardinality(DOMAIN before.participants) + 1
                            /\ after.playlist = before.playlist
                            /\ after.playback_state = before.playback_state
                            /\ \E e \in emitted' :
                                   /\ e.event = "session_join_success"
                                   /\ e.to = {sid}
                                   /\ e.playlist = after.playlist
                                   /\ e.playback_state = after.playback_state
                                   /\ e.participants = after.participants]_vars

\* C20 witness: a guest joined a session in which the host had added a song
\* and synced a position; the session has two members and the guest was
\* sent that song and that position
C20_Witness ==
    /\ last.op = "join_session"
    /\ last.outcome = "ok"
    /\ last.sid # db[last.jam_id].host_sid
    /\ Cardinality(DOMAIN db[last.jam_id].participants) = 2
    /\ db[last.jam_id].participants[last.sid] = "Guest"
    /\ db[last.jam_id].participants[db[last.jam_id].host_sid] = "Host"
    /\ Len(db[last.jam_id].playlist) = 1
    /\ db[last.jam_id].playback_state.current_playback_time = 7
    /\ \E e \in emitted :
           /\ e.event = "session_join_success"
           /\ e.playlist = db[last.jam_id].playlist
           /\ e.playback_state.current_playback_time = 7

\* C21: a successful join_session emits two events: session_join_success
\* with the session's playlist, playback_state and participants to the
\* caller only, and update_participants with the updated participants to
\* every other connected member of the session and not to the caller
C21_JoinFanOut ==
    [][(last'.op = "join_session" /\ last'.outcome = "ok")
          => LET sid == last'.sid
                 after == db'[last'.jam_id]
             IN  /\ Cardinality(emitted') = 2
                 /\ \E e \in emitted' :
                        /\ e.event = "session_join_success"
                        /\ e.jam_id = last'.jam_id
                        /\ e.to = {sid}
                        /\ e.playlist = after.playlist
                        /\ e.playback_state = after.playback_state
                        /\ e.participants = after.participants
                 /\ \E e \in emitted' :
                        /\ e.event = "update_participants"
                        /\ e.jam_id = last'.jam_id
                        /\ e.participants = after.participants
                        /\ sid \notin e.to
                        /\ Delivered(e) =
                               {s \in DOMAIN after.participants :
                                    conn[s] = "connected"} \ {sid}]_vars

\* C21 witness: a guest joined the only session; the update_participants
\* with both members went to the host alone
C21_Witness ==
    /\ last.op = "join_session"
    /\ last.outcome = "ok"
    /\ DOMAIN db = {last.jam_id}
    /\ last.sid # db[last.jam_id].host_sid
    /\ \E e \in emitted :
           /\ e.event = "update_participants"
           /\ e.to = {db[last.jam_id].host_sid}
           /\ DOMAIN e.participants = {last.sid, db[last.jam_id].host_sid}

\* C22: a successful add_song_to_jam of the host leaves the playlist as it
\* was with one song more at the end: the songs before keep their
\* positions, and the last song is the one of the request, under the
\* client's id or, without one, under an id of the server
C22_AddAppends ==
    [][(last'.op = "add_song_to_jam" /\ last'.outcome = "ok")
          => \A sid \in {last'.sid}, jam_id \in {last'.jam_id} :
                 \A client_song \in ClientSongs :
                     add_song_to_jam(sid, jam_id, client_song)
                         => LET before == db[jam_id].playlist
                                after == db'[jam_id].playlist
                                added == after[Len(after)]
                            IN  /\ Len(after) = Len(before) + 1
                                /\ \A i \in 1..Len(before) :
                                       after[i] = before[i]
                                /\ added.title = client_song.title
                                /\ added.type = client_song.type
                                /\ added.videoId = client_song.videoId
                                /\ added.url = client_song.url
                                /\ client_song.id # None
                                       => added.id = client_song.id
                                /\ client_song.id = None
                                       => added.id \in
                                              {Uuid(n) : n \in 1..MaxUuid}]_vars

\* C22 witness: the host added song A and then the song without id to an
\* empty playlist; the playlist is A followed by that song
C22_Witness ==
    /\ last.op = "add_song_to_jam"
    /\ last.outcome = "ok"
    /\ last.pre.playlist = <<SongA>>
    /\ Len(db[last.jam_id].playlist) = 2
    /\ db[last.jam_id].playlist[1] = SongA
    /\ db[last.jam_id].playlist[2].title = "C"

\* C24: remove_song_from_jam of the host with an id that no song of the
\* session's playlist has takes the NotFound branch and changes no document
C24_RemoveUnknownId ==
    [][(/\ last'.op = "remove_song_from_jam"
        /\ last'.jam_id \in DOMAIN db
        /\ last'.sid = db[last'.jam_id].host_sid
        /\ last'.song_id # None
        /\ \A i \in 1..Len(db[last'.jam_id].playlist) :
               db[last'.jam_id].playlist[i].id # last'.song_id)
          => /\ last'.outcome = "NotFound"
             /\ db' = db]_vars

\* C24 witness: the host asked to remove an unknown id from a playlist of
\* two songs that is playing at position 7
C24_Witness ==
    /\ last.op = "remove_song_from_jam"
    /\ last.outcome = "NotFound"
    /\ last.idx = -1
    /\ last.sid = db[last.jam_id].host_sid
    /\ Len(db[last.jam_id].playlist) = 2
    /\ db[last.jam_id].playback_state.is_playing
    /\ db[last.jam_id].playback_state.current_playback_time = 7

\* C25: in every reachable state a session with an empty playlist has
\* current_track_index 0 and is_playing false
C25_EmptyPlaylistAtRest ==
    \A j \in DOMAIN db :
        Len(db[j].playlist) = 0
            => /\ db[j].playback_state.current_track_index = 0
               /\ ~db[j].playback_state.is_playing

\* C26: after remove_song_from_jam removed the song at current_track_index,
\* the timestamp of the playback_state is newer than the one read before
\* the removal, and current_playback_time is 0
C26_RemoveCurrentBumpsTimestamp ==
    (/\ last.op = "remove_song_from_jam"
     /\ last.outcome = "ok"
     /\ last.idx = last.pre.playback_state.current_track_index)
        => /\ db[last.jam_id].playback_state.timestamp
                  > last.pre.playback_state.timestamp
           /\ db[last.jam_id].playback_state.current_playback_time = 0

\* requests of add_song_to_jam with a missing or malformed song
MalformedSongs == {NoSong, SongNoType, SongNoVideoId, SongNoUrl}

\* C28: add_song_to_jam with no song object, a song without type, a youtube
\* song without videoId or an audio song without url ends in the
\* InvalidArgument branch, not in an exception, and changes no document
C28_MalformedAddIsInvalidArgument ==
    [][last'.op = "add_song_to_jam"
          => \A sid \in {last'.sid}, jam_id \in {last'.jam_id} :
                 \A client_song \in MalformedSongs :
                     add_song_to_jam(sid, jam_id, client_song)
                         => /\ last'.outcome = "InvalidArgument"
                            /\ db' = db]_vars

\* C29: in every reachable state no two songs of a playlist have the same id
C29_UniqueTrackIds ==
    \A j \in DOMAIN db :
        \A i \in 1..Len(db[j].playlist), k \in 1..Len(db[j].playlist) :
            i # k => db[j].playlist[i].id # db[j].playlist[k].id

\* C30: a successful sync_playback_state of the host that carries no
\* 'playlist' field replaces the playback_state with the three fields sent
\* under the server's timestamp and leaves the stored playlist as it was
C30_SyncWithoutPlaylistKeepsPlaylist ==
    [][(last'.op = "sync_playback_state" /\ last'.outcome = "ok")
          => \A sid \in {last'.sid}, jam_id \in {last'.jam_id} :
                 \A request \in SyncRequests(sid, jam_id) :
                     (/\ ~request.playlist.given
                      /\ sync_playback_state(sid, jam_id,
                                             request.current_track_index,
                                             request.current_playback_time,
                                             request.is_playing,
                                             request.playlist))
                         => /\ db'[jam_id].playback_state =
                                   NewPlaybackState(
                                       request.current_track_index,
                                       request.current_playback_time,
                                       request.is_playing, clock)
                            /\ db'[jam_id].playlist = db[jam_id].playlist]_vars

\* C23: when a connection disconnects, every active session of which it is
\* a participant and not the host loses exactly that participant, stays
\* active with its host, playlist and playback_state as they were, and an
\* update_participants with the new map reaches the participants that remain
C23_GuestDisconnectLeaves ==
    [][last'.op = "disconnect"
          => \A j \in DOMAIN db :
                 (/\ db[j].is_active
                  /\ last'.sid \in DOMAIN db[j].participants
                  /\ db[j].host_sid # last'.sid)
                     => /\ db'[j].participants =
                               DictDel(db[j].participants, last'.sid)
                        /\ db'[j].is_active
                        /\ db'[j].host_sid = db[j].host_sid
                        /\ db'[j].playlist = db[j].playlist
                        /\ db'[j].playback_state = db[j].playback_state
                        /\ \E e \in emitted' :
                               /\ e.event = "update_participants"
                               /\ e.jam_id = j
                               /\ e.participants = db'[j].participants
                               /\ {s \in e.to : conn'[s] = "connected"} =
                                      {s \in DOMAIN db'[j].participants :
                                           conn'[s] = "connected"}]_vars

\* sessions whose participants map has sid as a key
SessionsOf(sid) ==
    {j \in DOMAIN db : sid \in DOMAIN db[j].participants}

\* C27: join_session, sync_playback_state, add_song_to_jam and
\* remove_song_from_jam for a jam_id, and the disconnect of a connection
\* that is a participant of one session only, leave the document of every
\* other session (participants, playlist, playback_state, is_active) as it
\* was
C27_SessionsIndependent ==
    [][/\ last'.op \in {"join_session", "sync_playback_state",
                        "add_song_to_jam", "remove_song_from_jam"}
           => \A j \in DOMAIN db \ {last'.jam_id} :
                  j \in DOMAIN db' /\ db'[j] = db[j]
       /\ (last'.op = "disconnect"
           /\ \E S \in DOMAIN db : SessionsOf(last'.sid) = {S})
           => \A j \in DOMAIN db \ SessionsOf(last'.sid) :
                  j \in DOMAIN db' /\ db'[j] = db[j]]_vars

\* C27 witness: the host of one session, a participant of that session
\* only, has disconnected and ended it; another session is active and holds
\* the song added to it
C27_Witness ==
    /\ last.op = "disconnect"
    /\ last.jam_id \in DOMAIN db
    /\ db[last.jam_id].host_sid = last.sid
    /\ ~db[last.jam_id].is_active
    /\ SessionsOf(last.sid) = {last.jam_id}
    /\ \E j \in DOMAIN db :
           /\ j # last.jam_id
           /\ db[j].is_active
           /\ Len(db[j].playlist) = 1

\* C31: a connection that has disconnected is a key of the participants of
\* no active session, whichever sessions it created or joined before
C31_DisconnectedIsNowhere ==
    \A sid \in Sids :
        conn[sid] = "disconnected"
            => \A j \in DOMAIN db :
                   db[j].is_active => sid \notin DOMAIN db[j].participants

\* C32: once a session's is_active is false no step adds a key to its
\* participants or a connection to its room, also when a join_session that
\* read the session as active runs around the host's disconnect
C32_NoJoinAfterEnd ==
    [][\A j \in DOMAIN db :
           ~db[j].is_active
               => /\ DOMAIN db'[j].participants
                         \subseteq DOMAIN db[j].participants
                  /\ rooms'[j] \subseteq rooms[j]]_vars

\* C33: a connection that gets session_join_success for a session and stays
\* connected gets the session_ended of the host's disconnect, however the
\* two handlers interleave: the session_ended goes to every connected
\* connection whose join has returned, and no session_join_success reaches
\* a connected connection for a session whose session_ended has gone out
C33_JoinedHearSessionEnded ==
    [][/\ (\E t \in Tasks : handle_disconnect_write(t))
           => \A e \in emitted' :
                  e.event = "session_ended"
                      => \A u \in Tasks :
                             (/\ in_flight'[u].op = "join_session"
                              /\ in_flight'[u].step = "done"
                              /\ in_flight'[u].outcome = "ok"
                              /\ in_flight'[u].jam_id = e.jam_id
                              /\ conn'[in_flight'[u].sid] = "connected")
                                 => in_flight'[u].sid \in e.to
       /\ (\E t \in Tasks : join_session_write(t))
           => \A e \in emitted' :
                  (/\ e.event = "session_join_success"
                   /\ \E s \in e.to : conn'[s] = "connected")
                      => db'[e.jam_id].is_active]_vars

\* C34: no step of join_session or of handle_disconnect changes the
\* playlist, the playback_state or the host_sid of a session, also when the
\* host's sync_playback_state, add_song_to_jam or remove_song_from_jam wrote
\* the session between the handler's read and its write
C34_MembershipTouchesOnlyMembership ==
    [][(\/ \E t \in Tasks : join_session_write(t)
        \/ \E t \in Tasks : handle_disconnect_write(t)
        \/ \E sid \in Sids, jam_id \in RequestJamIds, nickname \in Nicknames :
               join_session_handler(sid, jam_id, nickname)
        \/ \E sid \in Sids : handle_disconnect(sid))
          => \A j \in DOMAIN db :
                 /\ j \in DOMAIN db'
                 /\ db'[j].playlist = db[j].playlist
                 /\ db'[j].playback_state = db[j].playback_state
                 /\ db'[j].host_sid = db[j].host_sid]_vars

\* C34 witness: a join_session has written its participants after the host
\* changed the playlist and the playback_state that the join had read; the
\* session holds the host's playlist and playback_state
C34_Witness ==
    /\ last.op = "join_session"
    /\ last.outcome = "ok"
    /\ \E t \in Tasks :
           /\ in_flight[t].op = "join_session"
           /\ in_flight[t].step = "done"
           /\ in_flight[t].sid = last.sid
           /\ in_flight[t].sid \in DOMAIN db[last.jam_id].participants
           /\ in_flight[t].jam_data.playlist # db[last.jam_id].playlist
           /\ in_flight[t].jam_data.playback_state
                  # db[last.jam_id].playback_state

====
